---- MODULE Spec2Model ----
(***************************************************************************)
(* Smart Noise Monitor: the WebSocket ingest server of main.js (search for  *)
(* a free port and startup, device registry, per-message alert rules,      *)
(* periodic inactivity and liveness sweep), the sound classifier of        *)
(* sound_classifier.js, the launcher of start_all.js and the listeners of  *)
(* the display client (renderer.js, preload.js).                           *)
(*                                                                         *)
(* Numbers: noise levels are the producer's numbers; the audio features    *)
(* (energies, volatility) are counted in hundredths (0.45 is 45); times    *)
(* are milliseconds.  The feature values used below are chosen so that the *)
(* IEEE double arithmetic of the source (lowFreq - highFreq compared with  *)
(* 0.15) gives the same answers as the decimal arithmetic of the model.    *)
(***************************************************************************)
EXTENDS Integers, Sequences, FiniteSets, TLC

VARIABLES
    now,          \* Date.now(), ms
    mainWindow,   \* TRUE iff mainWindow is a window (not undefined / null)
    devices,      \* the registry `devices`: entries in key insertion order
    clients,      \* per connection: status, ws.isAlive, probe outstanding
    emitted,      \* what the last step sent to mainWindow.webContents, in order
    last,         \* the last step: its handler, connection and payload
    heard,        \* history: per device, the time its latest message was accepted
    initialized,  \* soundClassifier.initialized
    features,     \* classifier alone: the input, noiseLevel and the audio features
    heuristic,    \* classifier alone: what classifyByHeuristic returned for it
    result,       \* classifier alone: what the latest call of classify returned
    previous,     \* classifier alone: what the call of classify before it returned
    calls,        \* classifier alone: number of calls of classify made
    listen,       \* per port, what net.Server.listen(port) meets: free, EADDRINUSE, EACCES
    port,         \* findFreePort: the local `port`
    tried,        \* history: number of listen attempts findFreePort has made
    startup,      \* startWebSocketServer: probing, resolved, rejected, listening, exited
    exitCode,     \* the code given to process.exit, Undefined while the process runs
    PORT,         \* the global PORT
    portFound,    \* launcher: the port read from the server's output, Undefined for null
    classifierReady, \* launcher: the classifier's ready line has been seen
    checkReady,   \* launcher: the 500 ms interval: none (launcher not used), armed, cleared
    fallback,     \* launcher: the 15 s timeout: none (launcher not used), pending, fired
    simulators,   \* launcher: the port given to each call of spawnSimulator, in order
    NO_SIM,       \* launcher: process.env.NO_SIM === 'true'
    loaded,       \* display client: DOMContentLoaded has fired
    localStorage, \* display client: localStorage.getItem('isLoggedIn') === 'true'
    isLoggedIn,   \* display client: state.isLoggedIn
    listeners,    \* display client: listeners registered on each of the three event channels
    offlineChecks, \* display client: periodic offline checks running
    alertsList,   \* display client: number of entries of the alert list
    view,         \* display client: its last step; for an event, the calls of its handler and the entries added
    received,     \* history: events received by the display client
    logins        \* history: successful logins

vars == <<now, mainWindow, devices, clients, emitted, last, heard,
          initialized, features, heuristic, result, previous, calls,
          listen, port, tried, startup, exitCode, PORT,
          portFound, classifierReady, checkReady, fallback, simulators, NO_SIM,
          loaded, localStorage, isLoggedIn, listeners, offlineChecks, alertsList,
          view, received, logins>>

serverVars == <<now, mainWindow, devices, clients, emitted, last, heard>>
labVars == <<features, heuristic, result, previous, calls>>
bootVars == <<listen, port, tried, startup, exitCode, PORT>>
launchVars == <<portFound, classifierReady, checkReady, fallback, simulators, NO_SIM>>
viewVars == <<loaded, localStorage, isLoggedIn, listeners, offlineChecks, alertsList,
              view, received, logins>>

----------------------------------------------------------------------------
\* JavaScript values

\* `undefined` where a number is expected (an absent numeric field)
Undefined == -1
\* `undefined` where a string is expected (an absent string field)
NoString == "undefined"

TruthyNum(x) == x # Undefined /\ x # 0
TruthyStr(s) == s # NoString /\ s # ""

\* relational operators: a comparison with undefined (NaN) is false
Lt(x, y) == x # Undefined /\ y # Undefined /\ x < y
Gt(x, y) == x # Undefined /\ y # Undefined /\ x > y
Ge(x, y) == x # Undefined /\ y # Undefined /\ x >= y

\* x || 0
OrZero(x) == IF TruthyNum(x) THEN x ELSE 0

Abs(x) == IF x < 0 THEN -x ELSE x

RECURSIVE SelectSeqBy(_, _)
\* Array.prototype.filter on a sequence of entries, by a set of wanted ones
SelectSeqBy(s, keep) ==
    IF s = <<>> THEN <<>>
    ELSE (IF Head(s) \in keep THEN <<Head(s)>> ELSE <<>>) \o SelectSeqBy(Tail(s), keep)

----------------------------------------------------------------------------
\* Program constants

NOISE_THRESHOLD == 65
INACTIVITY_MS == 15000
SWEEP_INTERVAL_MS == 5000
DEFAULT_PORT == 8080
MAX_ATTEMPTS == 50
FALLBACK_PORT == 8080

\* Bounds of the model
ClockStart == 1000      \* the clock reading when the server starts (an epoch time is positive)
MaxTicks == 5           \* clock steps of SWEEP_INTERVAL_MS explored by Spec
LivenessTicks == 1      \* clock steps explored by SpecLiveness
MaxCalls == 2           \* calls of the classifier on one input
LabelTicks == 1         \* clock steps explored by SpecLabels
SerialTicks == 4        \* clock steps explored by SpecSerial
MaxLogins == 3          \* successful logins of the display client
MaxEvents == 3          \* events received by the display client

----------------------------------------------------------------------------
\* Sound classifier (sound_classifier.js)

Labels == {"speech", "music", "vehicle", "typing", "silence"}

\* an audioFeatures object; present = FALSE stands for no object at all
NoFeatures ==
    [present |-> FALSE, lowFreqEnergy |-> Undefined, midFreqEnergy |-> Undefined,
     highFreqEnergy |-> Undefined, volatility |-> Undefined]

Feat(l, m, h, v) ==
    [present |-> TRUE, lowFreqEnergy |-> l, midFreqEnergy |-> m,
     highFreqEnergy |-> h, volatility |-> v]

\* a default parameter / destructuring default: used when the value is undefined
Default(x, d) == IF x = Undefined THEN d ELSE x

HeuristicVehicleFirst(noiseLevel, lowFreq, midFreq, highFreq, volatility) ==
    LET low == Default(lowFreq, 20)
        high == Default(highFreq, 20)
        vol == Default(volatility, 30)
    IN  IF Lt(noiseLevel, 45) THEN "silence"
        ELSE IF Gt(low, 45) /\ Gt(noiseLevel, 72) THEN "vehicle"
        ELSE IF Gt(vol, 55) /\ Gt(high, 50) THEN "typing"
        ELSE IF Abs(low - high) < 15 /\ Gt(vol, 35) /\ Lt(vol, 65) THEN "music"
        ELSE "speech"

HeuristicInclusive(noiseLevel, lowFreq, midFreq, highFreq, volatility) ==
    LET low == Default(lowFreq, 20)
        high == Default(highFreq, 20)
        vol == Default(volatility, 30)
    IN  IF noiseLevel # Undefined /\ noiseLevel <= 45 THEN "silence"
        ELSE IF Ge(vol, 55) /\ Ge(high, 50) THEN "typing"
        ELSE IF Ge(low, 45) /\ Ge(noiseLevel, 72) THEN "vehicle"
        ELSE IF Abs(low - high) <= 15 /\ Ge(vol, 35) /\ vol <= 65 THEN "music"
        ELSE "speech"

ClassifyByHeuristic(noiseLevel, lowFreq, midFreq, highFreq, volatility) ==
    LET low == Default(lowFreq, 20)
        mid == Default(midFreq, 20)
        high == Default(highFreq, 20)
        vol == Default(volatility, 30)
    IN  IF Lt(noiseLevel, 45) THEN "silence"
        ELSE IF Gt(vol, 55) /\ Gt(high, 50) THEN "typing"
        ELSE IF Gt(low, 45) /\ Gt(noiseLevel, 72) THEN "vehicle"
        ELSE IF Abs(low - high) < 15 /\ Gt(vol, 35) /\ Lt(vol, 65) THEN "music"
        ELSE IF Gt(mid, 50) /\ Lt(vol, 55) /\ Gt(noiseLevel, 45) /\ Lt(noiseLevel, 80)
             THEN "speech"
        ELSE "speech"

\* a classification { soundType, confidence, scores: {} }; confidence in hundredths
NoClassification == [soundType |-> NoString, confidence |-> Undefined]
UnknownClassification == [soundType |-> "unknown", confidence |-> 0]

ClassifyNoDefaults(init, noiseLevel, f) ==
    IF ~init THEN UnknownClassification
    ELSE IF \E x \in {f.lowFreqEnergy, f.midFreqEnergy, f.highFreqEnergy, f.volatility} :
                x = Undefined
         THEN UnknownClassification
         ELSE [soundType |-> ClassifyByHeuristic(noiseLevel, f.lowFreqEnergy,
                                 f.midFreqEnergy, f.highFreqEnergy, f.volatility),
               confidence |-> 95]

ClassifyUnguarded(init, noiseLevel, f) ==
    [soundType |-> ClassifyByHeuristic(noiseLevel, Default(f.lowFreqEnergy, 20),
                                       Default(f.midFreqEnergy, 20),
                                       Default(f.highFreqEnergy, 20),
                                       Default(f.volatility, 30)),
     confidence |-> 95]

\* SoundClassifier.classify({ noiseLevel, ...audioFeatures })
Classify(init, noiseLevel, f) ==
    IF ~init THEN UnknownClassification
    ELSE LET lowFreqEnergy == Default(f.lowFreqEnergy, 20)
             midFreqEnergy == Default(f.midFreqEnergy, 20)
             highFreqEnergy == Default(f.highFreqEnergy, 20)
             volatility == Default(f.volatility, 30)
         IN  [soundType |-> ClassifyByHeuristic(noiseLevel, lowFreqEnergy, midFreqEnergy,
                                                highFreqEnergy, volatility),
              confidence |-> 95]

----------------------------------------------------------------------------
\* Ingest messages (one WebSocket payload each)

\* payload: "object" parses to a JSON object with the fields below; "null" parses
\* to null (destructuring it throws); "invalid" makes JSON.parse throw.
Message(p, d, t, n, f, s, ts) ==
    [payload |-> p, deviceId |-> d, tableId |-> t, noiseLevel |-> n,
     audioFeatures |-> f, soundType |-> s, timestamp |-> ts]

Broken(p) == Message(p, NoString, NoString, Undefined, NoFeatures, NoString, Undefined)
NoMessage == Broken("none")

\* const data = JSON.parse(msg.toString()); const { deviceId, ... } = data;  (may throw)
Decodes(m) == m.payload = "object"

IgnoresDeviceId(m) == Decodes(m)

\* the handler goes past `if (!deviceId) return;`
Accepted(m) == Decodes(m) /\ TruthyStr(m.deviceId)

----------------------------------------------------------------------------
\* Device registry: `devices`, an object keyed by deviceId. Object.entries
\* lists it in insertion order, so it is kept as a sequence of entries.

Ids(reg) == {reg[i].id : i \in 1..Len(reg)}
Has(reg, id) == id \in Ids(reg)
IndexOf(reg, id) == CHOOSE i \in 1..Len(reg) : reg[i].id = id
Get(reg, id) == reg[IndexOf(reg, id)]

\* devices[deviceId] = devices[deviceId] || {}
EmptyEntry(id) ==
    [id |-> id, lastSeen |-> Undefined, tableId |-> NoString, lastNoise |-> Undefined,
     ws |-> NoString, lastSoundType |-> NoString, classification |-> NoClassification]

Ensure(reg, id) == IF Has(reg, id) THEN reg ELSE Append(reg, EmptyEntry(id))

\* let classifiedSoundType = soundType || 'unknown'; if (soundClassifier && audioFeatures) ...
ClassifiedSoundType(init, m) ==
    IF m.audioFeatures.present
    THEN Classify(init, m.noiseLevel, m.audioFeatures).soundType
    ELSE IF TruthyStr(m.soundType) THEN m.soundType ELSE "unknown"

UpsertStamped(reg, c, m, t, init) ==
    LET r == Ensure(reg, m.deviceId)
        i == IndexOf(r, m.deviceId)
        old == r[i]
    IN  [r EXCEPT ![i] =
            [old EXCEPT !.lastSeen = IF TruthyNum(m.timestamp) THEN m.timestamp ELSE t,
                        !.tableId = IF TruthyStr(m.tableId) THEN m.tableId ELSE old.tableId,
                        !.lastNoise = m.noiseLevel,
                        !.ws = c]]

UpsertTableOverwrite(reg, c, m, t, init) ==
    LET r == Ensure(reg, m.deviceId)
        i == IndexOf(r, m.deviceId)
        old == r[i]
        e1 == [old EXCEPT !.lastSeen = t, !.tableId = m.tableId,
                          !.lastNoise = m.noiseLevel, !.ws = c]
    IN  [r EXCEPT ![i] = IF TruthyStr(m.soundType)
                         THEN [e1 EXCEPT !.lastSoundType = m.soundType] ELSE e1]

UpsertStoresLabel(reg, c, m, t, init) ==
    LET r == Ensure(reg, m.deviceId)
        i == IndexOf(r, m.deviceId)
        old == r[i]
    IN  [r EXCEPT ![i] =
            [old EXCEPT !.lastSeen = t,
                        !.tableId = IF TruthyStr(m.tableId) THEN m.tableId ELSE old.tableId,
                        !.lastNoise = m.noiseLevel,
                        !.ws = c,
                        !.lastSoundType = ClassifiedSoundType(init, m),
                        !.classification = IF m.audioFeatures.present
                                           THEN Classify(init, m.noiseLevel, m.audioFeatures)
                                           ELSE old.classification]]

UpsertAppends(reg, c, m, t, init) ==
    Append(reg, [EmptyEntry(m.deviceId) EXCEPT !.lastSeen = t, !.tableId = m.tableId,
                                               !.lastNoise = m.noiseLevel, !.ws = c])

UpsertKeepsHandle(reg, c, m, t, init) ==
    LET r == Ensure(reg, m.deviceId)
        i == IndexOf(r, m.deviceId)
        old == r[i]
    IN  [r EXCEPT ![i] =
            [old EXCEPT !.lastSeen = t,
                        !.tableId = IF TruthyStr(m.tableId) THEN m.tableId ELSE old.tableId,
                        !.lastNoise = m.noiseLevel,
                        !.ws = IF old.ws = NoString THEN c ELSE old.ws]]

UpsertFirstHalf(reg, c, m, t, init) ==
    LET r == Ensure(reg, m.deviceId)
        i == IndexOf(r, m.deviceId)
        old == r[i]
    IN  [r EXCEPT ![i] =
            [old EXCEPT !.lastSeen = t,
                        !.tableId = IF TruthyStr(m.tableId) THEN m.tableId ELSE old.tableId,
                        !.lastNoise = IF old.lastNoise = Undefined
                                      THEN m.noiseLevel ELSE old.lastNoise,
                        !.ws = c]]

\* the registry after the handler's writes for message m received on connection c
Upsert(reg, c, m, t, init) ==
    LET r == Ensure(reg, m.deviceId)
        i == IndexOf(r, m.deviceId)
        old == r[i]
        e1 == [old EXCEPT !.lastSeen = t,
                          !.tableId = IF TruthyStr(m.tableId) THEN m.tableId ELSE old.tableId,
                          !.lastNoise = m.noiseLevel,
                          !.ws = c]
        e2 == IF m.audioFeatures.present
              THEN [e1 EXCEPT !.lastSoundType = ClassifiedSoundType(init, m),
                              !.classification = Classify(init, m.noiseLevel, m.audioFeatures)]
              ELSE IF TruthyStr(m.soundType)
                   THEN [e1 EXCEPT !.lastSoundType = m.soundType]
                   ELSE e1
    IN  [r EXCEPT ![i] = e2]

----------------------------------------------------------------------------
\* Alert rules

ExceedsStrictly(noiseLevel) == Gt(noiseLevel, NOISE_THRESHOLD)

\* if (noiseLevel >= NOISE_THRESHOLD)
Exceeds(noiseLevel) == Ge(noiseLevel, NOISE_THRESHOLD)

\* timestamp || Date.now()
Stamp(m, t) == IF TruthyNum(m.timestamp) THEN m.timestamp ELSE t

DeviceData(m, label, t) ==
    [channel |-> "device-data", deviceId |-> m.deviceId, tableId |-> m.tableId,
     noiseLevel |-> m.noiseLevel, soundType |-> label, timestamp |-> Stamp(m, t)]

NoiseExceed(reg, m, label, t) ==
    [channel |-> "alert", type |-> "noise_exceed", deviceId |-> m.deviceId,
     tableId |-> Get(reg, m.deviceId).tableId, noiseLevel |-> m.noiseLevel,
     soundType |-> label, timestamp |-> Stamp(m, t)]

\* Object.entries(devices).filter(([id, d]) => id !== triggeringDeviceId && d.tableId === table)
OtherDevices(reg, id) ==
    SelectSeqBy(reg, {e \in {reg[i] : i \in 1..Len(reg)} :
                        e.id # id /\ e.tableId = Get(reg, id).tableId})

PeerLowInclusive(e) == OrZero(e.lastNoise) <= NOISE_THRESHOLD - 10

\* (d.lastNoise || 0) < (NOISE_THRESHOLD - 10)
PeerLow(e) == OrZero(e.lastNoise) < NOISE_THRESHOLD - 10

SomePeerLow(others) == \E i \in 1..Len(others) : PeerLow(others[i])

\* otherDevices.every(...)
PeersLow(others) == \A i \in 1..Len(others) : PeerLow(others[i])

PeerList(others) ==
    [i \in 1..Len(others) |-> [deviceId |-> others[i].id, noise |-> OrZero(others[i].lastNoise)]]

\* checkForMismatch(triggeringDeviceId): the events it sends
CheckForMismatch(reg, id, window) ==
    IF ~Has(reg, id) \/ ~TruthyStr(Get(reg, id).tableId) THEN <<>>
    ELSE LET triggering == Get(reg, id)
             triggeredNoise == OrZero(triggering.lastNoise)
             otherDevices == OtherDevices(reg, id)
         IN  IF Len(otherDevices) = 0 THEN <<>>
             ELSE IF triggeredNoise >= NOISE_THRESHOLD /\ PeersLow(otherDevices) /\ window
                  THEN << [channel |-> "alert", type |-> "possible_sensor_issue",
                           deviceId |-> id, tableId |-> triggering.tableId,
                           noiseLevel |-> triggeredNoise,
                           peers |-> PeerList(otherDevices)] >>
                  ELSE <<>>

HandlerEventsNoMismatch(reg, m, t, init, window) ==
    LET label == ClassifiedSoundType(init, m)
    IN  (IF window THEN <<DeviceData(m, label, t)>> ELSE <<>>)
        \o (IF Exceeds(m.noiseLevel) /\ window THEN <<NoiseExceed(reg, m, label, t)>> ELSE <<>>)

HandlerEventsAlertsFirst(reg, m, t, init, window) ==
    LET label == ClassifiedSoundType(init, m)
    IN  (IF Exceeds(m.noiseLevel) /\ window THEN <<NoiseExceed(reg, m, label, t)>> ELSE <<>>)
        \o CheckForMismatch(reg, m.deviceId, window)
        \o (IF window THEN <<DeviceData(m, label, t)>> ELSE <<>>)

HandlerEventsUnguarded(reg, m, t, init, window) ==
    LET label == ClassifiedSoundType(init, m)
    IN  <<DeviceData(m, label, t)>>
        \o (IF Exceeds(m.noiseLevel) THEN <<NoiseExceed(reg, m, label, t)>> ELSE <<>>)
        \o CheckForMismatch(reg, m.deviceId, TRUE)

\* everything the message handler sends for an accepted message, in order;
\* reg is the registry after the handler's writes
HandlerEvents(reg, m, t, init, window) ==
    LET label == ClassifiedSoundType(init, m)
    IN  (IF window THEN <<DeviceData(m, label, t)>> ELSE <<>>)
        \o (IF Exceeds(m.noiseLevel) /\ window THEN <<NoiseExceed(reg, m, label, t)>> ELSE <<>>)
        \o CheckForMismatch(reg, m.deviceId, window)

----------------------------------------------------------------------------
\* Periodic sweep

InactiveInclusive(e, t) == TruthyNum(e.lastSeen) /\ t - e.lastSeen >= INACTIVITY_MS

\* if (!dev.lastSeen) continue; if (now - dev.lastSeen > INACTIVITY_MS)
Inactive(e, t) == TruthyNum(e.lastSeen) /\ t - e.lastSeen > INACTIVITY_MS

DeviceOffline(e) == [channel |-> "device-offline", deviceId |-> e.id, tableId |-> e.tableId]

OfflineEvents(reg, t, window) ==
    LET stale == SelectSeqBy(reg, {e \in {reg[i] : i \in 1..Len(reg)} : Inactive(e, t)})
    IN  IF window THEN [i \in 1..Len(stale) |-> DeviceOffline(stale[i])] ELSE <<>>

\* a connection: status "none" (not yet accepted), "open" (in wss.clients),
\* "closed" (closed by the peer), "terminated" (client.terminate());
\* history: probe, a ping was sent and no pong has come back since;
\* traffic, a payload has arrived since the last sweep
NoClient == [status |-> "none", isAlive |-> FALSE, probe |-> FALSE, traffic |-> FALSE]

SweepClientKeepAlive(cl) ==
    IF cl.status # "open" THEN cl
    ELSE [cl EXCEPT !.isAlive = FALSE, !.probe = TRUE, !.traffic = FALSE]

\* if (!client.isAlive) return client.terminate(); client.isAlive = false; client.ping();
SweepClient(cl) ==
    IF cl.status # "open" THEN cl
    ELSE IF ~cl.isAlive THEN [cl EXCEPT !.status = "terminated"]
    ELSE [cl EXCEPT !.isAlive = FALSE, !.probe = TRUE, !.traffic = FALSE]

MessageRevives(cl) == [cl EXCEPT !.isAlive = TRUE, !.traffic = TRUE]

\* what the message handler does to the connection it runs on: it never
\* writes ws.isAlive
MessageTouch(cl) == [cl EXCEPT !.traffic = TRUE]

Step(op, c, m) == [op |-> op, conn |-> c, msg |-> m]

----------------------------------------------------------------------------
\* Actions

\* wss.on('connection')
Connect(c) ==
    /\ startup = "listening"
    /\ clients[c].status = "none"
    /\ clients' = [clients EXCEPT ![c] = [status |-> "open", isAlive |-> TRUE,
                                          probe |-> FALSE, traffic |-> FALSE]]
    /\ emitted' = <<>>
    /\ last' = Step("connection", c, NoMessage)
    /\ UNCHANGED <<now, mainWindow, devices, heard, initialized, labVars, bootVars, launchVars, viewVars>>

\* ws.on('pong')
OnPong(c) ==
    /\ clients[c].status = "open"
    /\ clients' = [clients EXCEPT ![c] = [@ EXCEPT !.isAlive = TRUE, !.probe = FALSE]]
    /\ emitted' = <<>>
    /\ last' = Step("pong", c, NoMessage)
    /\ UNCHANGED <<now, mainWindow, devices, heard, initialized, labVars, bootVars, launchVars, viewVars>>

\* ws.on('message')
OnMessage(c, m) ==
    /\ clients[c].status = "open"
    /\ IF Accepted(m)
       THEN /\ devices' = Upsert(devices, c, m, now, initialized)
            /\ emitted' = HandlerEvents(devices', m, now, initialized, mainWindow)
            /\ heard' = (m.deviceId :> now) @@ heard
       ELSE /\ devices' = devices
            /\ emitted' = <<>>
            /\ heard' = heard
    /\ clients' = [clients EXCEPT ![c] = MessageTouch(@)]
    /\ last' = Step("message", c, m)
    /\ UNCHANGED <<now, mainWindow, initialized, labVars, bootVars, launchVars, viewVars>>

OnCloseForgets(c) ==
    /\ clients[c].status = "open"
    /\ clients' = [clients EXCEPT ![c] = [@ EXCEPT !.status = "closed"]]
    /\ devices' = SelectSeqBy(devices, {e \in {devices[i] : i \in 1..Len(devices)} : e.ws # c})
    /\ emitted' = <<>>
    /\ last' = Step("close", c, NoMessage)
    /\ UNCHANGED <<now, mainWindow, heard, initialized, labVars, bootVars, launchVars, viewVars>>

\* ws.on('close'), the peer closing
OnClose(c) ==
    /\ clients[c].status = "open"
    /\ clients' = [clients EXCEPT ![c] = [@ EXCEPT !.status = "closed"]]
    /\ emitted' = <<>>
    /\ last' = Step("close", c, NoMessage)
    /\ UNCHANGED <<now, mainWindow, devices, heard, initialized, labVars, bootVars, launchVars, viewVars>>

\* ws.on('error'): the handler logs and nothing else
OnError(c) ==
    /\ clients[c].status = "open"
    /\ emitted' = <<>>
    /\ last' = Step("error", c, NoMessage)
    /\ UNCHANGED <<now, mainWindow, devices, clients, heard, initialized, labVars, bootVars, launchVars, viewVars>>

QueryDevicesOnline ==
    /\ startup # "exited"
    /\ emitted' = << [channel |-> "query-devices",
                      devices |-> SelectSeqBy(devices,
                                      {e \in {devices[i] : i \in 1..Len(devices)} :
                                          ~Inactive(e, now)}),
                      NOISE_THRESHOLD |-> NOISE_THRESHOLD] >>
    /\ last' = Step("query", NoString, NoMessage)
    /\ UNCHANGED <<now, mainWindow, devices, clients, heard, initialized, labVars, bootVars, launchVars, viewVars>>

\* ipcMain.handle('query-devices'): the reply carries the registry and the threshold
QueryDevices ==
    /\ startup # "exited"
    /\ emitted' = << [channel |-> "query-devices", devices |-> devices,
                      NOISE_THRESHOLD |-> NOISE_THRESHOLD] >>
    /\ last' = Step("query", NoString, NoMessage)
    /\ UNCHANGED <<now, mainWindow, devices, clients, heard, initialized, labVars, bootVars, launchVars, viewVars>>

\* the setInterval callback: inactivity detection, then the liveness sweep
Sweep ==
    /\ startup = "listening"
    /\ emitted' = OfflineEvents(devices, now, mainWindow)
    /\ clients' = [c \in DOMAIN clients |-> SweepClient(clients[c])]
    /\ last' = Step("sweep", NoString, NoMessage)
    /\ UNCHANGED <<now, mainWindow, devices, heard, initialized, labVars, bootVars, launchVars, viewVars>>

\* mainWindow.on('closed')
WindowClosed ==
    /\ startup # "exited"
    /\ mainWindow
    /\ mainWindow' = FALSE
    /\ emitted' = <<>>
    /\ last' = Step("closed", NoString, NoMessage)
    /\ UNCHANGED <<now, devices, clients, heard, initialized, labVars, bootVars, launchVars, viewVars>>

\* time passes
Tick(maxTicks) ==
    /\ startup # "exited"
    /\ now < ClockStart + maxTicks * SWEEP_INTERVAL_MS
    /\ now' = now + SWEEP_INTERVAL_MS
    /\ emitted' = <<>>
    /\ last' = Step("tick", NoString, NoMessage)
    /\ UNCHANGED <<mainWindow, devices, clients, heard, initialized, labVars, bootVars, launchVars, viewVars>>

ExhaustedAtMax(p, startPort, maxAttempts) == p >= startPort + maxAttempts

\* if (port > startPort + maxAttempts) return reject(...)
Exhausted(p, startPort, maxAttempts) == p > startPort + maxAttempts

\* findFreePort: one run of tryPort, the listen attempt on `port` and the
\* handler of its outcome ('listening', or 'error' with its code)
TryPort(startPort, maxAttempts) ==
    /\ startup = "probing"
    /\ tried' = tried + 1
    /\ IF listen[port] = "free"
       THEN port' = port /\ startup' = "resolved"
       ELSE IF listen[port] = "EADDRINUSE"
            THEN /\ port' = port + 1
                 /\ startup' = IF Exhausted(port', startPort, maxAttempts)
                               THEN "rejected" ELSE "probing"
            ELSE port' = port /\ startup' = "rejected"
    /\ emitted' = <<>>
    /\ last' = Step("tryPort", NoString, NoMessage)
    /\ UNCHANGED <<now, mainWindow, devices, clients, heard, initialized, labVars,
                   listen, exitCode, PORT, launchVars, viewVars>>

\* startWebSocketServer after findFreePort resolved: PORT = selected, the
\* server is created, the classifier is initialized (with or without
\* success), the handlers and the timer are installed
StartServer ==
    /\ startup = "resolved"
    /\ PORT' = port
    /\ initialized' \in BOOLEAN
    /\ startup' = "listening"
    /\ emitted' = <<>>
    /\ last' = Step("listening", NoString, NoMessage)
    /\ UNCHANGED <<now, mainWindow, devices, clients, heard, labVars,
                   listen, port, tried, exitCode, launchVars, viewVars>>

\* startWebSocketServer's catch: process.exit(1)
FailStartup ==
    /\ startup = "rejected"
    /\ startup' = "exited"
    /\ exitCode' = 1
    /\ emitted' = <<>>
    /\ last' = Step("exit", NoString, NoMessage)
    /\ UNCHANGED <<now, mainWindow, devices, clients, heard, initialized, labVars,
                   listen, port, tried, PORT, launchVars, viewVars>>

\* the lines of the server's output the launcher looks for
ReadyLines == {"port", "classifier"}

\* the lines a chunk of the server's output can bring now: the port line is
\* printed once the server listens, the classifier's line after it and only
\* when the classifier initialized
CanArrive(lines) ==
    /\ lines # {} => startup = "listening"
    /\ "classifier" \in lines => initialized /\ ("port" \in lines \/ portFound # Undefined)

\* processChunk(chunk)
ProcessChunk(lines) ==
    /\ checkReady # "none"
    /\ CanArrive(lines)
    /\ classifierReady' = (classifierReady \/ "classifier" \in lines)
    /\ portFound' = IF "port" \in lines /\ ~TruthyNum(portFound) THEN PORT ELSE portFound
    /\ UNCHANGED <<serverVars, initialized, labVars, bootVars,
                   checkReady, fallback, simulators, NO_SIM, viewVars>>

\* the setInterval callback checkReady
CheckReady ==
    /\ checkReady = "armed"
    /\ IF TruthyNum(portFound) /\ classifierReady
       THEN /\ checkReady' = "cleared"
            /\ simulators' = IF ~NO_SIM THEN Append(simulators, portFound) ELSE simulators
       ELSE UNCHANGED <<checkReady, simulators>>
    /\ UNCHANGED <<serverVars, initialized, labVars, bootVars,
                   portFound, classifierReady, fallback, NO_SIM, viewVars>>

\* the setTimeout callback, 15 s after the launcher started
Fallback ==
    /\ fallback = "pending"
    /\ fallback' = "fired"
    /\ checkReady' = "cleared"
    /\ portFound' = IF ~TruthyNum(portFound) THEN FALLBACK_PORT ELSE portFound
    /\ simulators' = IF ~NO_SIM /\ TruthyNum(portFound')
                     THEN Append(simulators, portFound') ELSE simulators
    /\ UNCHANGED <<serverVars, initialized, labVars, bootVars, classifierReady, NO_SIM,
                   viewVars>>

\* Display client (renderer.js, preload.js)

VALID_CREDENTIALS == [admin |-> "admin123", user |-> "user123"]

\* VALID_CREDENTIALS[username] && VALID_CREDENTIALS[username] === password
Valid(username, password) ==
    username \in DOMAIN VALID_CREDENTIALS /\ VALID_CREDENTIALS[username] = password

ViewStep(op, channel, handled, added) ==
    [op |-> op, channel |-> channel, handled |-> handled, added |-> added]

\* showApp(): attachDataListeners registers one more listener on each channel
\* (ipcRenderer.on adds, it never replaces); initChart starts one more
\* periodic check, unless creating the chart on a canvas already in use throws
\* before the setInterval is reached
ShowApp ==
    /\ listeners' = listeners + 1
    /\ offlineChecks' \in IF offlineChecks = 0 THEN {1}
                           ELSE {offlineChecks, offlineChecks + 1}

\* window 'DOMContentLoaded': checkSession()
DOMContentLoaded ==
    /\ ~loaded
    /\ loaded' = TRUE
    /\ IF localStorage
       THEN isLoggedIn' = TRUE /\ ShowApp
       ELSE UNCHANGED <<isLoggedIn, listeners, offlineChecks>>
    /\ view' = ViewStep("load", NoString, 0, 0)
    /\ UNCHANGED <<serverVars, initialized, labVars, bootVars, launchVars,
                   localStorage, alertsList, received, logins>>

\* handleLogin(event), the form of the login screen submitted
HandleLogin(username, password) ==
    /\ loaded /\ ~isLoggedIn
    /\ logins < MaxLogins
    /\ IF Valid(username, password)
       THEN /\ isLoggedIn' = TRUE
            /\ localStorage' = TRUE
            /\ ShowApp
            /\ logins' = logins + 1
       ELSE UNCHANGED <<isLoggedIn, localStorage, listeners, offlineChecks, logins>>
    /\ view' = ViewStep("login", NoString, 0, 0)
    /\ UNCHANGED <<serverVars, initialized, labVars, bootVars, launchVars,
                   loaded, alertsList, received>>

\* handleLogout()
HandleLogout ==
    /\ loaded /\ isLoggedIn
    /\ isLoggedIn' = FALSE
    /\ localStorage' = FALSE
    /\ view' = ViewStep("logout", NoString, 0, 0)
    /\ UNCHANGED <<serverVars, initialized, labVars, bootVars, launchVars,
                   loaded, listeners, offlineChecks, alertsList, received, logins>>

EventChannels == {"device-data", "alert", "device-offline"}

\* one event arrives on a channel: every listener registered on it calls the
\* handler; handleAlert and handleDeviceOffline add an entry to the alert list
\* when logged in, handleDeviceData adds none
OnEvent(channel) ==
    /\ loaded
    /\ received < MaxEvents
    /\ received' = received + 1
    /\ LET added == IF channel # "device-data" /\ isLoggedIn THEN listeners ELSE 0
       IN  /\ alertsList' = alertsList + added
           /\ view' = ViewStep("event", channel, listeners, added)
    /\ UNCHANGED <<serverVars, initialized, labVars, bootVars, launchVars,
                   loaded, localStorage, isLoggedIn, listeners, offlineChecks, logins>>

----------------------------------------------------------------------------
\* soundClassifier.classify({ noiseLevel, ...audioFeatures }) on the input
CallClassify ==
    /\ calls < MaxCalls
    /\ result' = Classify(initialized, features.noiseLevel, features.audioFeatures)
    /\ previous' = result
    /\ calls' = calls + 1
    /\ UNCHANGED <<serverVars, initialized, features, heuristic, bootVars, launchVars, viewVars>>

\* classifyByHeuristic(noiseLevel, lowFreq, midFreq, highFreq, volatility) on the input
CallHeuristic ==
    /\ heuristic = NoString
    /\ heuristic' = ClassifyByHeuristic(features.noiseLevel,
                                    features.audioFeatures.lowFreqEnergy,
                                    features.audioFeatures.midFreqEnergy,
                                    features.audioFeatures.highFreqEnergy,
                                    features.audioFeatures.volatility)
    /\ UNCHANGED <<serverVars, initialized, features, result, previous, calls, bootVars, launchVars, viewVars>>

----------------------------------------------------------------------------
\* Inputs

Conns == {"c1", "c2"}

\* payloads the handler discards: unparsable text, JSON null, an object with no
\* deviceId, an object whose deviceId is the empty string
Discarded ==
    {Broken("invalid"), Broken("null"), Broken("object"),
     Message("object", "", "T1", 70, NoFeatures, NoString, Undefined)}

Readings(ds, ts, ns, fs, ss, stamps) ==
    {Message("object", d, t, n, f, s, st) :
        d \in ds, t \in ts, n \in ns, f \in fs, s \in ss, st \in stamps}

\* inactivity: two devices on one connection, with and without a table and a
\* timestamp of their own
Messages ==
    Discarded \cup
    Readings({"d1", "d2"}, {NoString, "T1"}, {70}, {NoFeatures}, {NoString}, {Undefined, 1})

\* alert rules: two devices on any table (none, the empty string, T1, T2) with
\* noise around both limits, and a third device that stays on T1 just below or
\* at the peer limit
AlertMessages ==
    {Broken("invalid")} \cup
    Readings({"d1", "d2"}, {NoString, "", "T1", "T2"}, {Undefined, 54, 55, 65},
             {NoFeatures}, {NoString}, {Undefined}) \cup
    Readings({"d3"}, {"T1"}, {54, 55}, {NoFeatures}, {NoString}, {Undefined})

\* liveness: two devices, two connections
LivenessMessages ==
    {Broken("invalid"), Broken("object")} \cup
    Readings({"d1", "d2"}, {"T1"}, {70}, {NoFeatures}, {NoString}, {Undefined})

\* the simulator's vehicle and silence patterns, in hundredths
VehiclePattern == Feat(55, 30, 15, 10)
SilencePattern == Feat(20, 20, 20, 5)
SpeechPattern == Feat(20, 65, 15, 35)
MusicPattern == Feat(30, 40, 30, 50)
TypingPattern == Feat(10, 30, 60, 70)

\* generateAudioFeatures: the five patterns, each with its noise range
Patterns ==
    {[label |-> "speech", noiseLevel |-> 60..75, audioFeatures |-> SpeechPattern],
     [label |-> "music", noiseLevel |-> 70..85, audioFeatures |-> MusicPattern],
     [label |-> "vehicle", noiseLevel |-> 75..90, audioFeatures |-> VehiclePattern],
     [label |-> "typing", noiseLevel |-> 45..65, audioFeatures |-> TypingPattern],
     [label |-> "silence", noiseLevel |-> 30..45, audioFeatures |-> SilencePattern]}

\* Math.round(min + Math.random() * (max - min)) with the pattern's features
\* before addNoise
PatternInputs ==
    UNION {{[noiseLevel |-> n, audioFeatures |-> pt.audioFeatures] : n \in pt.noiseLevel} :
              pt \in Patterns}

\* labels: one loud device with and without a feature vector and with no, an
\* empty or a given soundType, next to a quiet device on the same table
LabelMessages ==
    {Broken("invalid")} \cup
    Readings({"d1"}, {"T1"}, {80}, {NoFeatures, VehiclePattern},
             {NoString, "", "music"}, {Undefined}) \cup
    Readings({"d2"}, {"T1"}, {30}, {SilencePattern}, {NoString}, {Undefined})

\* the two-device scenario: a loud device with the vehicle pattern and a quiet
\* one with the silence pattern, both on table T1
ScenarioMessages ==
    Readings({"d1"}, {"T1"}, {80}, {VehiclePattern}, {NoString}, {Undefined}) \cup
    Readings({"d2"}, {"T1"}, {30}, {SilencePattern}, {NoString}, {Undefined})

\* the ports findFreePort can reach, and two more
Ports == DEFAULT_PORT..(DEFAULT_PORT + MAX_ATTEMPTS + 2)

\* what listen meets on each port: the first k ports in use, the next one
\* free or refused for another reason, the ones after it all free or all in use
PortMaps ==
    {[p \in Ports |-> IF p < DEFAULT_PORT + k THEN "EADDRINUSE"
                      ELSE IF p = DEFAULT_PORT + k THEN s ELSE r] :
        k \in 0..(MAX_ATTEMPTS + 2), s \in {"free", "EACCES"}, r \in {"free", "EADDRINUSE"}}

\* several producers at once: what a connection sends tells the connection
\* from the table and the noise of the reading (c1 loud on T1, c2 quiet on T1
\* or just under the peer limit on T2), for either device
SerialMessages(c) ==
    IF c = "c1"
    THEN Readings({"d1", "d2"}, {"T1"}, {80}, {NoFeatures}, {NoString}, {Undefined})
    ELSE Readings({"d1", "d2"}, {"T1"}, {30}, {NoFeatures}, {NoString}, {Undefined}) \cup
         Readings({"d1", "d2"}, {"T2"}, {54}, {NoFeatures}, {NoString}, {Undefined})

\* classifier inputs: every limit of the rules, one value below or at it and one
\* above, and each field absent
GridNoise == {Undefined, 44, 45, 46, 72, 73, 80}
GridLow == {Undefined, 20, 45, 46, 50}
GridMid == {Undefined, 20, 51}
GridHigh == {Undefined, 20, 50, 51, 65}
GridVolatility == {Undefined, 30, 35, 36, 55, 56, 64, 65, 90}

----------------------------------------------------------------------------
\* Specifications

\* the page of the display client has not loaded yet, no session is stored
NoView ==
    /\ loaded = FALSE
    /\ localStorage = FALSE
    /\ isLoggedIn = FALSE
    /\ listeners = 0
    /\ offlineChecks = 0
    /\ alertsList = 0
    /\ view = ViewStep("none", NoString, 0, 0)
    /\ received = 0
    /\ logins = 0

\* the application was started without the launcher (electron .)
NoLauncher ==
    /\ NoView
    /\ portFound = Undefined
    /\ classifierReady = FALSE
    /\ checkReady = "none"
    /\ fallback = "none"
    /\ simulators = <<>>
    /\ NO_SIM = FALSE

\* the server has started on the default port at its first attempt
ServerUp ==
    /\ NoLauncher
    /\ listen = [p \in Ports |-> "free"]
    /\ port = DEFAULT_PORT
    /\ tried = 1
    /\ startup = "listening"
    /\ exitCode = Undefined
    /\ PORT = DEFAULT_PORT

Init ==
    /\ ServerUp
    /\ now = ClockStart
    /\ mainWindow \in BOOLEAN
    /\ devices = <<>>
    /\ clients = [c \in Conns |-> NoClient]
    /\ emitted = <<>>
    /\ last = Step("start", NoString, NoMessage)
    /\ heard = <<>>
    /\ initialized = TRUE
    /\ features = [noiseLevel |-> Undefined, audioFeatures |-> NoFeatures]
    /\ heuristic = NoString
    /\ result = NoClassification
    /\ previous = NoClassification
    /\ calls = 0

Serve(conns, msgs) ==
    \/ \E c \in conns : Connect(c)
    \/ \E c \in conns : OnPong(c)
    \/ \E c \in conns : \E m \in msgs : OnMessage(c, m)
    \/ \E c \in conns : OnClose(c)
    \/ \E c \in conns : OnError(c)
    \/ Sweep
    \/ QueryDevices
    \/ WindowClosed

Next == Serve({"c1"}, Messages) \/ Tick(MaxTicks)

\* the server over a stretch of time long enough for a device to go stale twice
Spec == Init /\ [][Next]_vars

NextAlerts ==
    \/ Connect("c1")
    \/ \E m \in AlertMessages : OnMessage("c1", m)
    \/ OnClose("c1")
    \/ WindowClosed

\* the message path alone (the sweep and the pong handler never write the registry)
SpecAlerts == Init /\ [][NextAlerts]_vars

NextLiveness == Serve(Conns, LivenessMessages) \/ Tick(LivenessTicks)

\* two connections under the liveness sweep
SpecLiveness == Init /\ [][NextLiveness]_vars

\* the classifier's initialization has succeeded or has failed
InitLabels ==
    /\ ServerUp
    /\ now = ClockStart
    /\ mainWindow \in BOOLEAN
    /\ devices = <<>>
    /\ clients = [c \in Conns |-> NoClient]
    /\ emitted = <<>>
    /\ last = Step("start", NoString, NoMessage)
    /\ heard = <<>>
    /\ initialized \in BOOLEAN
    /\ features = [noiseLevel |-> Undefined, audioFeatures |-> NoFeatures]
    /\ heuristic = NoString
    /\ result = NoClassification
    /\ previous = NoClassification
    /\ calls = 0

NextLabels == Serve({"c1"}, LabelMessages) \/ Tick(LabelTicks)

\* the message path with feature vectors and producer labels
SpecLabels == InitLabels /\ [][NextLabels]_vars

\* ws.on('message') for the one message of a device that has not sent yet
OnFirstMessage(c, m) == m.deviceId \notin DOMAIN heard /\ OnMessage(c, m)

\* each of the two devices sends its one message, on either connection
NextScenario ==
    \/ \E c \in Conns : Connect(c)
    \/ \E c \in Conns : OnPong(c)
    \/ \E c \in Conns : \E m \in ScenarioMessages : OnFirstMessage(c, m)
    \/ \E c \in Conns : OnClose(c)
    \/ \E c \in Conns : OnError(c)
    \/ Sweep
    \/ QueryDevices
    \/ WindowClosed

\* the two-device scenario; the event loop keeps running (the timer fires
\* every SWEEP_INTERVAL_MS)
SpecScenario == InitLabels /\ [][NextScenario]_vars /\ WF_vars(NextScenario)

NextSerial ==
    \/ \E c \in Conns : Connect(c)
    \/ \E c \in Conns : \E m \in SerialMessages(c) : OnMessage(c, m)
    \/ Sweep
    \/ Tick(SerialTicks)

\* two connections delivering readings of the same devices, and the timer
SpecSerial == Init /\ [][NextSerial]_vars

\* the process at the call of startWebSocketServer
InitStartup ==
    /\ NoLauncher
    /\ listen \in PortMaps
    /\ port = DEFAULT_PORT
    /\ tried = 0
    /\ startup = "probing"
    /\ exitCode = Undefined
    /\ PORT = DEFAULT_PORT
    /\ now = ClockStart
    /\ mainWindow \in BOOLEAN
    /\ devices = <<>>
    /\ clients = [c \in Conns |-> NoClient]
    /\ emitted = <<>>
    /\ last = Step("start", NoString, NoMessage)
    /\ heard = <<>>
    /\ initialized = FALSE
    /\ features = [noiseLevel |-> Undefined, audioFeatures |-> NoFeatures]
    /\ heuristic = NoString
    /\ result = NoClassification
    /\ previous = NoClassification
    /\ calls = 0

NextStartup ==
    \/ TryPort(DEFAULT_PORT, MAX_ATTEMPTS)
    \/ StartServer
    \/ FailStartup
    \/ Connect("c1")
    \/ \E m \in ScenarioMessages : OnMessage("c1", m)
    \/ OnClose("c1")
    \/ Sweep
    \/ WindowClosed

\* startup from the search for a port on; the promise continuations of the
\* startup always get to run
SpecStartup ==
    /\ InitStartup /\ [][NextStartup]_vars
    /\ WF_vars(TryPort(DEFAULT_PORT, MAX_ATTEMPTS))
    /\ WF_vars(StartServer) /\ WF_vars(FailStartup)

\* what listen meets when the application is started by the launcher: at most
\* the first two ports in use
LauncherPortMaps ==
    {[p \in Ports |-> IF p < DEFAULT_PORT + k THEN "EADDRINUSE"
                      ELSE IF p = DEFAULT_PORT + k THEN s ELSE "free"] :
        k \in 0..2, s \in {"free", "EACCES"}}

\* main() of the launcher has run: the application is spawned and about to
\* search for a port, the interval and the timeout are set
InitLauncher ==
    /\ NoView
    /\ portFound = Undefined
    /\ classifierReady = FALSE
    /\ checkReady = "armed"
    /\ fallback = "pending"
    /\ simulators = <<>>
    /\ NO_SIM \in BOOLEAN
    /\ listen \in LauncherPortMaps
    /\ port = DEFAULT_PORT
    /\ tried = 0
    /\ startup = "probing"
    /\ exitCode = Undefined
    /\ PORT = DEFAULT_PORT
    /\ now = ClockStart
    /\ mainWindow = TRUE
    /\ devices = <<>>
    /\ clients = [c \in Conns |-> NoClient]
    /\ emitted = <<>>
    /\ last = Step("start", NoString, NoMessage)
    /\ heard = <<>>
    /\ initialized = FALSE
    /\ features = [noiseLevel |-> Undefined, audioFeatures |-> NoFeatures]
    /\ heuristic = NoString
    /\ result = NoClassification
    /\ previous = NoClassification
    /\ calls = 0

NextLauncher ==
    \/ TryPort(DEFAULT_PORT, MAX_ATTEMPTS)
    \/ StartServer
    \/ FailStartup
    \/ \E lines \in SUBSET ReadyLines : ProcessChunk(lines)
    \/ CheckReady
    \/ Fallback

\* the launcher and the startup of the application it spawned
SpecLauncher == InitLauncher /\ [][NextLauncher]_vars

\* the names and passwords typed into the login form
Credentials ==
    {<<"admin", "admin123">>, <<"user", "user123">>, <<"admin", "user123">>,
     <<"guest", "admin123">>, <<"", "">>}

\* the window is created and its page about to load, with or without a
\* session left in localStorage by an earlier run
InitView ==
    /\ listen = [p \in Ports |-> "free"]
    /\ port = DEFAULT_PORT
    /\ tried = 1
    /\ startup = "listening"
    /\ exitCode = Undefined
    /\ PORT = DEFAULT_PORT
    /\ portFound = Undefined
    /\ classifierReady = FALSE
    /\ checkReady = "none"
    /\ fallback = "none"
    /\ simulators = <<>>
    /\ NO_SIM = FALSE
    /\ loaded = FALSE
    /\ localStorage \in BOOLEAN
    /\ isLoggedIn = FALSE
    /\ listeners = 0
    /\ offlineChecks = 0
    /\ alertsList = 0
    /\ view = ViewStep("none", NoString, 0, 0)
    /\ received = 0
    /\ logins = 0
    /\ now = ClockStart
    /\ mainWindow = TRUE
    /\ devices = <<>>
    /\ clients = [c \in Conns |-> NoClient]
    /\ emitted = <<>>
    /\ last = Step("start", NoString, NoMessage)
    /\ heard = <<>>
    /\ initialized \in BOOLEAN
    /\ features = [noiseLevel |-> Undefined, audioFeatures |-> NoFeatures]
    /\ heuristic = NoString
    /\ result = NoClassification
    /\ previous = NoClassification
    /\ calls = 0

NextView ==
    \/ DOMContentLoaded
    \/ \E cr \in Credentials : HandleLogin(cr[1], cr[2])
    \/ HandleLogout
    \/ \E channel \in EventChannels : OnEvent(channel)

\* the display client alone: page load, logins, logouts and events
SpecView == InitView /\ [][NextView]_vars

InitClassifier ==
    /\ ServerUp
    /\ now = ClockStart
    /\ mainWindow = TRUE
    /\ devices = <<>>
    /\ clients = [c \in Conns |-> NoClient]
    /\ emitted = <<>>
    /\ last = Step("start", NoString, NoMessage)
    /\ heard = <<>>
    /\ initialized \in BOOLEAN
    /\ features \in {[noiseLevel |-> n, audioFeatures |-> Feat(l, m, h, v)] :
                        n \in GridNoise, l \in GridLow, m \in GridMid,
                        h \in GridHigh, v \in GridVolatility}
    /\ heuristic = NoString
    /\ result = NoClassification
    /\ previous = NoClassification
    /\ calls = 0

NextClassifier == CallClassify \/ CallHeuristic

\* the classifier on a reading of the simulator
InitPatterns ==
    /\ ServerUp
    /\ now = ClockStart
    /\ mainWindow = TRUE
    /\ devices = <<>>
    /\ clients = [c \in Conns |-> NoClient]
    /\ emitted = <<>>
    /\ last = Step("start", NoString, NoMessage)
    /\ heard = <<>>
    /\ initialized = TRUE
    /\ features \in PatternInputs
    /\ heuristic = NoString
    /\ result = NoClassification
    /\ previous = NoClassification
    /\ calls = 0

\* the classifier alone, on the simulator's base patterns
SpecPatterns == InitPatterns /\ [][NextClassifier]_vars

\* the classifier alone, on every input of the grid
SpecClassifier == InitClassifier /\ [][NextClassifier]_vars

----------------------------------------------------------------------------
\* Vocabulary of the properties

\* a payload that decodes to an object with a non-empty deviceId
WellFormed(m) == m.payload = "object" /\ m.deviceId \notin {NoString, ""}

\* the state is the one the message handler left after accepting last.msg
AcceptedStep == last.op = "message" /\ WellFormed(last.msg)

\* positions in `emitted` of the alerts of one type
Alerts(type) ==
    {i \in DOMAIN emitted : emitted[i].channel = "alert" /\ emitted[i].type = type}

Entries == {devices[i] : i \in DOMAIN devices}
EntryOf(id) == CHOOSE e \in Entries : e.id = id

\* the other registry entries on the table of entry d
PeersOf(d) == {e \in Entries : e.id # d.id /\ e.tableId = d.tableId}

\* a last noise, an absent one counting as 0
NoiseOf(e) == IF e.lastNoise = Undefined THEN 0 ELSE e.lastNoise

AtLeast(x, limit) == x # Undefined /\ x >= limit

----------------------------------------------------------------------------
\* C1 as stated: every accepted message with noiseLevel >= 65 gets exactly one
\* noise_exceed alert, and every other accepted message none.
ThresholdRuleAlways ==
    AcceptedStep =>
        Cardinality(Alerts("noise_exceed")) =
            IF AtLeast(last.msg.noiseLevel, 65) THEN 1 ELSE 0

\* C1 amended: while the display window is present, an accepted message gets
\* exactly one noise_exceed alert (naming its device and noise) if its
\* noiseLevel is >= 65 and none if it is below 65 or absent, whatever came
\* before; while the window is absent no noise_exceed alert is emitted.
ThresholdRule ==
    AcceptedStep =>
        /\ Cardinality(Alerts("noise_exceed")) =
               IF mainWindow /\ AtLeast(last.msg.noiseLevel, 65) THEN 1 ELSE 0
        /\ \A i \in Alerts("noise_exceed") :
               /\ emitted[i].deviceId = last.msg.deviceId
               /\ emitted[i].noiseLevel = last.msg.noiseLevel

\* C1 witness: a message at exactly the threshold, from a device that was
\* already at the threshold, has just produced its alert
ThresholdRuleWitness ==
    /\ AcceptedStep
    /\ mainWindow
    /\ last.msg.noiseLevel = 65
    /\ Cardinality(Alerts("noise_exceed")) = 1
    /\ \E e \in Entries : e.id # last.msg.deviceId /\ e.lastNoise = 65

----------------------------------------------------------------------------
\* the peer-consistency condition of C2 for the device of the accepted message
SensorIssueCondition ==
    LET d == EntryOf(last.msg.deviceId)
    IN  /\ d.tableId \notin {NoString, ""}
        /\ AtLeast(d.lastNoise, 65)
        /\ PeersOf(d) # {}
        /\ \A e \in PeersOf(d) : NoiseOf(e) < 55

----------------------------------------------------------------------------
\* the input of the classifier, field by field
InNoise == features.noiseLevel
InLow == features.audioFeatures.lowFreqEnergy
InMid == features.audioFeatures.midFreqEnergy
InHigh == features.audioFeatures.highFreqEnergy
InVolatility == features.audioFeatures.volatility

AllGiven == Undefined \notin {InNoise, InLow, InMid, InHigh, InVolatility}

Distance(a, b) == IF a >= b THEN a - b ELSE b - a

\* C3: on every input of the grid with all five values given, classifyByHeuristic
\* returns the label of the first rule that matches, in the order silence
\* (noise < 45), typing (volatility > 0.55 and high > 0.5), vehicle (low > 0.45
\* and noise > 72), music (|low - high| < 0.15 and 0.35 < volatility < 0.65),
\* otherwise speech, every comparison strict.
RuleOrder ==
    (heuristic # NoString /\ AllGiven) =>
        LET silence == InNoise < 45
            typing == InVolatility > 55 /\ InHigh > 50
            vehicle == InLow > 45 /\ InNoise > 72
            music == Distance(InLow, InHigh) < 15 /\ 35 < InVolatility /\ InVolatility < 65
        IN  /\ silence => heuristic = "silence"
            /\ ~silence /\ typing => heuristic = "typing"
            /\ ~silence /\ ~typing /\ vehicle => heuristic = "vehicle"
            /\ ~silence /\ ~typing /\ ~vehicle /\ music => heuristic = "music"
            /\ ~silence /\ ~typing /\ ~vehicle /\ ~music => heuristic = "speech"

\* C3 witness: an input that sits on the limits of the typing rule (high 0.5)
\* and of the vehicle rule (low 0.45) without passing them, and is music
RuleOrderWitness ==
    /\ heuristic = "music"
    /\ InNoise = 73 /\ InLow = 45 /\ InHigh = 50 /\ InVolatility = 64 /\ InMid = 51

\* the example input of C4, with highFreqEnergy h
ExampleInput(h) ==
    /\ InNoise = 80 /\ InLow = 50 /\ InHigh = h /\ InVolatility = 90
    /\ InMid = Undefined

\* C4 as stated: noiseLevel 80, lowFreqEnergy 0.5, highFreqEnergy 0.5,
\* volatility 0.9 and midFreqEnergy left to its default is classified typing,
\* although the vehicle rule matches it too.
ExampleIsTyping ==
    ExampleInput(50) =>
        /\ heuristic # NoString => heuristic = "typing"
        /\ (initialized /\ calls > 0) => result.soundType = "typing"

\* C4 amended: that input is classified vehicle, because highFreqEnergy 0.5 is
\* not above 0.5 and the typing rule does not match it; the same input with
\* highFreqEnergy 0.51 matches both rules and is classified typing.
ExampleIsVehicle ==
    /\ ExampleInput(50) =>
           /\ heuristic # NoString => heuristic = "vehicle"
           /\ (initialized /\ calls > 0) => result.soundType = "vehicle"
    /\ ExampleInput(51) =>
           /\ heuristic # NoString => heuristic = "typing"
           /\ (initialized /\ calls > 0) => result.soundType = "typing"

\* C4 witness: the example input has been classified, both ways
ExampleWitness ==
    /\ ExampleInput(50)
    /\ heuristic = "vehicle"
    /\ initialized /\ calls > 0 /\ result.soundType = "vehicle"

\* the label of the input with every absent feature replaced by its default
\* (0.2, 0.2, 0.2, 0.3)
LabelWithDefaults ==
    ClassifyByHeuristic(InNoise,
                        IF InLow = Undefined THEN 20 ELSE InLow,
                        IF InMid = Undefined THEN 20 ELSE InMid,
                        IF InHigh = Undefined THEN 20 ELSE InHigh,
                        IF InVolatility = Undefined THEN 30 ELSE InVolatility)

----------------------------------------------------------------------------
\* a well-formed reading, for asking whether a connection still takes messages
GoodReading == Message("object", "d1", "T1", 70, NoFeatures, NoString, Undefined)

\* C6: a payload that cannot be decoded, or that has no or an empty deviceId,
\* changes no registry entry, emits nothing, and leaves every connection's
\* status and liveness flag as they were; the connection it came on stays open
\* and its message handler still takes a well-formed message.
DiscardIsolated ==
    /\ [][(last'.op = "message" /\ ~WellFormed(last'.msg)) =>
            /\ devices' = devices
            /\ emitted' = <<>>
            /\ \A c \in Conns : /\ clients'[c].status = clients[c].status
                                /\ clients'[c].isAlive = clients[c].isAlive
            /\ clients'[last'.conn].status = "open"]_vars
    /\ []((last.op = "message" /\ ~WellFormed(last.msg)) =>
            ENABLED OnMessage(last.conn, GoodReading))

\* C6 witness: an object without deviceId has just been discarded on a probed
\* connection, with a device already in the registry
DiscardIsolatedWitness ==
    /\ last.op = "message"
    /\ last.msg = Broken("object")
    /\ devices # <<>>
    /\ clients[last.conn].status = "open"
    /\ ~clients[last.conn].isAlive

----------------------------------------------------------------------------
SweepStep == last.op = "sweep"

\* the device_offline events among what was emitted
OfflineNotices == {i \in DOMAIN emitted : emitted[i].channel = "device-offline"}

StaleEntries == {e \in Entries : now - e.lastSeen > 15000}

\* C7 as stated: every sweep emits a device_offline event for each entry whose
\* lastSeen is more than 15000 ms old, and for no other.
InactivityRuleAlways ==
    SweepStep =>
        \A e \in Entries :
            (e \in StaleEntries) <=>
                (\E i \in OfflineNotices : emitted[i].deviceId = e.id)

\* C7 amended: while the display window is present, every sweep emits exactly
\* one device_offline event {deviceId, tableId} for each entry whose lastSeen is
\* strictly more than 15000 ms before the sweep time and none for any other
\* entry, at every sweep anew and whatever the state of the device's
\* connection; while the window is absent a sweep emits nothing.
InactivityRule ==
    SweepStep =>
        IF mainWindow
        THEN /\ Len(emitted) = Cardinality(StaleEntries)
             /\ {emitted[i] : i \in DOMAIN emitted} =
                    {[channel |-> "device-offline", deviceId |-> e.id, tableId |-> e.tableId] :
                        e \in StaleEntries}
        ELSE emitted = <<>>

\* C7 witness: a sweep reports a device 20000 ms old whose connection has been
\* terminated, and does not report one exactly 15000 ms old
InactivityRuleWitness ==
    /\ SweepStep
    /\ mainWindow
    /\ \E e \in Entries :
          /\ now - e.lastSeen = 20000
          /\ clients[e.ws].status = "terminated"
          /\ \E i \in OfflineNotices : emitted[i].deviceId = e.id
    /\ \E e \in Entries :
          /\ now - e.lastSeen = 15000
          /\ \A i \in OfflineNotices : emitted[i].deviceId # e.id

\* C8: a sweep that runs no later than 15000 ms after the latest message of a
\* device was accepted emits no device_offline for that device, whatever
\* timestamp the message carried.
MessageResetsOffline ==
    SweepStep =>
        \A i \in OfflineNotices : now > heard[emitted[i].deviceId] + 15000

\* C8 witness: a sweep exactly 15000 ms after a device's latest message reports
\* another device and not that one
MessageResetsOfflineWitness ==
    /\ SweepStep
    /\ OfflineNotices # {}
    /\ \E d \in DOMAIN heard :
          /\ now = heard[d] + 15000
          /\ \A i \in OfflineNotices : emitted[i].deviceId # d

----------------------------------------------------------------------------
PayloadRevives ==
    [][/\ last'.op = "message" => clients'[last'.conn].isAlive
       /\ last'.op = "sweep" =>
              \A c \in Conns :
                  (clients[c].status = "open" /\ clients[c].traffic) =>
                      clients'[c].status # "terminated"]_vars

\* C10 amended: a payload message leaves the liveness flag of its connection
\* as it was (only the accept and a probe acknowledgment set it), so a
\* connection that sends payloads between two sweeps without acknowledging the
\* probe is terminated at the second sweep.
PayloadLeavesLiveness ==
    [][/\ last'.op = "message" =>
              clients'[last'.conn].isAlive = clients[last'.conn].isAlive
       /\ last'.op = "sweep" =>
              \A c \in Conns :
                  (clients[c].status = "open" /\ clients[c].traffic /\ clients[c].probe) =>
                      clients'[c].status = "terminated"]_vars

\* C10 witness: a connection that had sent a payload since its probe, and no
\* pong, has been terminated by the sweep
PayloadLeavesLivenessWitness ==
    /\ SweepStep
    /\ clients["c1"].status = "terminated"
    /\ clients["c1"].traffic /\ clients["c1"].probe
    /\ \E e \in Entries : e.ws = "c1" /\ e.lastSeen = now

----------------------------------------------------------------------------
\* C11 as stated: after an accepted message the device's lastSeen is the
\* message's timestamp when it has one, and the receipt time only when it has
\* none.
LastSeenFromMessage ==
    AcceptedStep =>
        EntryOf(last.msg.deviceId).lastSeen =
            IF last.msg.timestamp # Undefined THEN last.msg.timestamp ELSE now

\* C11 amended: after an accepted message the device's lastSeen is the receipt
\* time, whether or not the message has a timestamp; the message's timestamp
\* (the receipt time when it has none) is only the timestamp of the events
\* emitted for the message.
LastSeenIsReceipt ==
    AcceptedStep =>
        /\ EntryOf(last.msg.deviceId).lastSeen = now
        /\ \A i \in DOMAIN emitted :
               emitted[i].channel = "device-data" =>
                   emitted[i].timestamp =
                       IF last.msg.timestamp \notin {Undefined, 0}
                       THEN last.msg.timestamp ELSE now

\* C11 witness: a message stamped 1 has been accepted later than the start of
\* the clock, its entry is stamped with the receipt time and its event with 1
LastSeenIsReceiptWitness ==
    /\ AcceptedStep
    /\ last.msg.timestamp = 1
    /\ now > ClockStart
    /\ EntryOf(last.msg.deviceId).lastSeen = now
    /\ \E i \in DOMAIN emitted :
           emitted[i].channel = "device-data" /\ emitted[i].timestamp = 1

----------------------------------------------------------------------------
\* the step into the next state is the message handler accepting a message
AcceptingStep == last'.op = "message" /\ WellFormed(last'.msg)

----------------------------------------------------------------------------
\* the tableId of device id in registry reg, absent if the device is unknown
TableOf(reg, id) == IF Has(reg, id) THEN Get(reg, id).tableId ELSE NoString

\* C13 as stated: an accepted message that carries a tableId sets the device's
\* registry tableId to it, and one without a tableId leaves it as it was.
TableSetWheneverCarried ==
    [][AcceptingStep =>
           TableOf(devices', last'.msg.deviceId) =
               IF last'.msg.tableId # NoString
               THEN last'.msg.tableId
               ELSE TableOf(devices, last'.msg.deviceId)]_vars

\* C13 amended: an accepted message that carries a non-empty tableId sets the
\* device's registry tableId to it (last write wins); one with no tableId, or
\* with the empty string as tableId, leaves it at its previous value (absent
\* if the device never supplied a non-empty one).
TableLastWriteWins ==
    [][AcceptingStep =>
           TableOf(devices', last'.msg.deviceId) =
               IF last'.msg.tableId \notin {NoString, ""}
               THEN last'.msg.tableId
               ELSE TableOf(devices, last'.msg.deviceId)]_vars

\* C13 witness: a device that had moved to T2 has sent a message with an empty
\* tableId and is still on T2, next to a device on T1
TableLastWriteWinsWitness ==
    /\ AcceptedStep
    /\ last.msg.tableId = ""
    /\ EntryOf(last.msg.deviceId).tableId = "T2"
    /\ \E e \in Entries : e.tableId = "T1"

----------------------------------------------------------------------------
\* C14: an accepted message without a noiseLevel, from a device already in the
\* registry, leaves that device's last noise in the registry as it was before
\* the message.
AbsentNoiseRetained ==
    [][(/\ AcceptingStep
        /\ Has(devices, last'.msg.deviceId)
        /\ last'.msg.noiseLevel = Undefined) =>
           Get(devices', last'.msg.deviceId).lastNoise =
               Get(devices, last'.msg.deviceId).lastNoise]_vars

----------------------------------------------------------------------------
\* the lastSoundType of device id in registry reg, absent if the device is unknown
SoundTypeOf(reg, id) == IF Has(reg, id) THEN Get(reg, id).lastSoundType ELSE NoString

\* positions in `emitted` of the device-data events
DataEvents == {i \in DOMAIN emitted : emitted[i].channel = "device-data"}

\* C15 as stated: for every accepted message the label is the classifier's
\* output when audioFeatures is present, else the producer's soundType, else
\* 'unknown'; after the message the device's lastSoundType equals that label,
\* and so does the soundType of the device-data event emitted for the message.
LabelStoredAlways ==
    AcceptedStep =>
        LET m == last.msg
            label == IF m.audioFeatures.present
                     THEN Classify(initialized, m.noiseLevel, m.audioFeatures).soundType
                     ELSE IF m.soundType # NoString THEN m.soundType ELSE "unknown"
        IN  /\ EntryOf(m.deviceId).lastSoundType = label
            /\ Cardinality(DataEvents) = 1
            /\ \A i \in DataEvents : emitted[i].soundType = label

\* C15 amended: the label of an accepted message is the classifier's output
\* when audioFeatures is present (whatever soundType the producer gave), else
\* the producer's soundType when it is non-empty, else 'unknown'. The device's
\* lastSoundType becomes that label when it came from the classifier or from
\* the producer, and keeps its previous value (absent for a new device) when
\* the label is the fallback 'unknown'. While the display window is present
\* exactly one device-data event is emitted for the message, with that label
\* as soundType; while it is absent none is.
LabelStored ==
    [][AcceptingStep =>
           LET m == last'.msg
               given == m.soundType \notin {NoString, ""}
               label == IF m.audioFeatures.present
                        THEN Classify(initialized, m.noiseLevel, m.audioFeatures).soundType
                        ELSE IF given THEN m.soundType ELSE "unknown"
               data == {i \in DOMAIN emitted' : emitted'[i].channel = "device-data"}
           IN  /\ SoundTypeOf(devices', m.deviceId) =
                      IF m.audioFeatures.present \/ given
                      THEN label
                      ELSE SoundTypeOf(devices, m.deviceId)
               /\ Cardinality(data) = IF mainWindow THEN 1 ELSE 0
               /\ \A i \in data : emitted'[i].soundType = label]_vars

\* C15 witness: a message with neither feature vector nor soundType, from a
\* device last classified as vehicle, has been forwarded as 'unknown' while the
\* registry still says vehicle
LabelStoredWitness ==
    /\ AcceptedStep
    /\ ~last.msg.audioFeatures.present /\ last.msg.soundType = NoString
    /\ EntryOf(last.msg.deviceId).lastSoundType = "vehicle"
    /\ \E i \in DataEvents : emitted[i].soundType = "unknown"

----------------------------------------------------------------------------
\* the registry after the handler accepts the message of the last step once
\* more on the same connection, at clock reading t
AcceptedAgain(t) == Upsert(devices, last.conn, last.msg, t, initialized)

\* the clock readings at which the same message can be accepted again with no
\* other message in between: at once, or one clock step later
LaterReadings == {now, now + SWEEP_INTERVAL_MS}

\* C16 as stated: accepting the same message a second time, on the same
\* connection and with no other message in between, leaves the registry
\* exactly as the first acceptance left it, in every field, with no second
\* entry.
UpsertIdempotentAlways ==
    AcceptedStep => \A t \in LaterReadings : AcceptedAgain(t) = devices

\* C16 amended: the second acceptance creates no second entry, leaves every
\* other entry as it was, and leaves every field of the device's entry as the
\* first acceptance left it except lastSeen, which becomes the receipt time of
\* the second acceptance; the registry is exactly the same only when both are
\* received at the same clock reading.
UpsertIdempotent ==
    AcceptedStep =>
        \A t \in LaterReadings :
            /\ Len(AcceptedAgain(t)) = Len(devices)
            /\ Cardinality(Ids(devices)) = Len(devices)
            /\ AcceptedAgain(t) =
                   [devices EXCEPT ![IndexOf(devices, last.msg.deviceId)].lastSeen = t]

\* C16 witness: a classified message has been accepted next to another entry;
\* accepting it again one clock step later would change the registry
UpsertIdempotentWitness ==
    /\ AcceptedStep
    /\ last.msg.audioFeatures.present
    /\ Len(devices) = 2
    /\ EntryOf(last.msg.deviceId).classification.soundType = "vehicle"
    /\ AcceptedAgain(now + SWEEP_INTERVAL_MS) # devices
    /\ AcceptedAgain(now) = devices

----------------------------------------------------------------------------
\* C17: every registry entry holds exactly one connection handle; after an
\* accepted message it is the connection the message arrived on, whatever the
\* handle was before and whatever the state of the earlier connection; and no
\* step other than an accepted message of that device changes it.
HandleIsLatest ==
    /\ [](\A e \in Entries :
            /\ e.ws \in Conns
            /\ (AcceptedStep /\ last.msg.deviceId = e.id) => e.ws = last.conn)
    /\ [][\A i \in DOMAIN devices :
            (~AcceptingStep \/ last'.msg.deviceId # devices[i].id) =>
                devices'[i].ws = devices[i].ws]_vars

\* C17 witness: d1 has just been accepted on c2 while c1, the connection d2's
\* entry still points to, is terminated
HandleIsLatestWitness ==
    /\ AcceptedStep
    /\ last.msg.deviceId = "d1" /\ last.conn = "c2"
    /\ EntryOf("d1").ws = "c2"
    /\ clients["c1"].status = "terminated"
    /\ \E e \in Entries : e.id = "d2" /\ e.ws = "c1"

----------------------------------------------------------------------------
\* both messages of the scenario have been processed
BothProcessed == {"d1", "d2"} \subseteq DOMAIN heard

\* a noise_exceed alert for d1 is among the events just emitted
ExceedForD1 == \E i \in Alerts("noise_exceed") : emitted[i].deviceId = "d1"

\* a possible_sensor_issue alert for d1 listing d2 at noise 30 is among the
\* events just emitted
IssueForD1 ==
    \E i \in Alerts("possible_sensor_issue") :
        /\ emitted[i].deviceId = "d1"
        /\ emitted[i].peers = << [deviceId |-> "d2", noise |-> 30] >>

\* C18 as stated: in every execution in which d1 (T1, noise 80, vehicle
\* pattern) and d2 (T1, noise 30, silence pattern) have each sent their
\* message, in either order, a noise_exceed alert for d1 and a
\* possible_sensor_issue alert for d1 listing d2 at 30 are emitted, and no
\* alert names d2 as the triggering device.
ScenarioAlways ==
    /\ [](\A i \in DOMAIN emitted :
            emitted[i].channel = "alert" => emitted[i].deviceId # "d2")
    /\ (<>BothProcessed => (<>ExceedForD1 /\ <>IssueForD1))

\* C18 amended: while the display window is present, d1's message gets a
\* noise_exceed alert for d1 (noise 80, the classifier's label), and it gets a
\* possible_sensor_issue alert for d1 listing d2 at noise 30 exactly when d2's
\* message was processed before it; d2's message gets no alert, so when d1's
\* message comes first no possible_sensor_issue is emitted for the two
\* messages; while the window is absent no alert is emitted; no alert names d2.
ScenarioRule ==
    AcceptedStep =>
        LET exceed == Alerts("noise_exceed")
            issues == Alerts("possible_sensor_issue")
        IN  /\ last.msg.deviceId = "d1" =>
                   /\ Cardinality(exceed) = (IF mainWindow THEN 1 ELSE 0)
                   /\ \A i \in exceed :
                          /\ emitted[i].deviceId = "d1"
                          /\ emitted[i].tableId = "T1"
                          /\ emitted[i].noiseLevel = 80
                          /\ emitted[i].soundType =
                                 (IF initialized THEN "vehicle" ELSE "unknown")
                   /\ Cardinality(issues) =
                          (IF mainWindow /\ "d2" \in DOMAIN heard THEN 1 ELSE 0)
                   /\ (issues # {} => IssueForD1)
            /\ last.msg.deviceId = "d2" => (exceed = {} /\ issues = {})

\* C18 witness: d1's message, processed after d2's, has raised both alerts
ScenarioRuleWitness ==
    /\ AcceptedStep
    /\ last.msg.deviceId = "d1"
    /\ BothProcessed
    /\ ExceedForD1 /\ IssueForD1
    /\ Len(emitted) = 3

----------------------------------------------------------------------------
InUse(p) == listen[p] = "EADDRINUSE"

\* the ports findFreePort has tried so far
Probed == DEFAULT_PORT..(DEFAULT_PORT + tried - 1)

\* the port of the latest attempt
LatestProbed == DEFAULT_PORT + tried - 1

\* what C19 says of the search whatever the number of attempts: the ports are
\* tried in succession from the start port; the search resolves with the
\* lowest port not in use; it rejects when every tried port is in use or when
\* a listen fails for another reason; a rejection ends the process with exit
\* code 1, and then, as before the server listens, no connection is accepted
PortSearchOutcome ==
    /\ startup = "probing" =>
           port = DEFAULT_PORT + tried /\ \A p \in Probed : InUse(p)
    /\ startup \in {"resolved", "listening"} =>
           /\ port = LatestProbed
           /\ listen[port] = "free"
           /\ \A p \in DEFAULT_PORT..(port - 1) : InUse(p)
    /\ startup = "listening" => PORT = port
    /\ startup \in {"rejected", "exited"} =>
           \/ \A p \in Probed : InUse(p)
           \/ /\ listen[LatestProbed] = "EACCES"
              /\ \A p \in DEFAULT_PORT..(LatestProbed - 1) : InUse(p)
    /\ exitCode = (IF startup = "exited" THEN 1 ELSE Undefined)
    /\ startup # "listening" =>
           devices = <<>> /\ \A c \in Conns : clients[c].status = "none"

\* C19 as stated: findFreePort(8080, 50) tries no more than maxAttempts ports
\* in total, resolves with the lowest port not in use and rejects when all
\* tried ports are in use; a rejection makes startup exit with code 1 and no
\* connection is ever accepted.
PortSearchWithinMaxAttempts ==
    /\ tried <= MAX_ATTEMPTS
    /\ PortSearchOutcome

\* C19 amended: findFreePort tries the ports startPort .. startPort +
\* maxAttempts in succession, at most maxAttempts + 1 ports in total; it
\* resolves with the lowest port not in use if that port is among them; it
\* rejects when all maxAttempts + 1 ports are in use, or at the first listen
\* error that is not a conflict; a rejection makes startup exit with code 1
\* and no connection is ever accepted; the search always ends, with the
\* server listening or the process exited.
PortSearch ==
    /\ [](/\ tried <= MAX_ATTEMPTS + 1
          /\ PortSearchOutcome
          /\ (startup \in {"rejected", "exited"} /\ InUse(LatestProbed)) =>
                 tried = MAX_ATTEMPTS + 1)
    /\ <>(startup \in {"listening", "exited"})

\* C19 witness: with the first maxAttempts ports in use, the attempt number
\* maxAttempts + 1 has found the last port free, and the server listening on
\* it has accepted a connection
PortSearchWitness ==
    /\ startup = "listening"
    /\ tried = MAX_ATTEMPTS + 1
    /\ PORT = DEFAULT_PORT + MAX_ATTEMPTS
    /\ \A p \in DEFAULT_PORT..(PORT - 1) : InUse(p)
    /\ clients["c1"].status = "open"

----------------------------------------------------------------------------
\* the handler has just accepted a message with a feature vector while the
\* classifier is not initialized
DegradedStep == AcceptedStep /\ last.msg.audioFeatures.present /\ ~initialized

\* the registry entry of the message's device carries the message
EntryUpdated ==
    LET e == EntryOf(last.msg.deviceId)
    IN  /\ e.lastSeen = now
        /\ e.lastNoise = last.msg.noiseLevel
        /\ e.ws = last.conn
        /\ e.tableId = last.msg.tableId
        /\ e.lastSoundType = "unknown"
        /\ e.classification = [soundType |-> "unknown", confidence |-> 0]

----------------------------------------------------------------------------
\* the simulator pattern the classifier's input was drawn from
PatternOf == CHOOSE pt \in Patterns : pt.audioFeatures = features.audioFeatures

\* both ways of calling the classifier have returned
Classified == heuristic # NoString /\ result # NoClassification

\* C21 as stated: for each of the five base patterns of the simulator and every
\* integer noise level of the pattern's range, both ends included, the
\* classifier returns the pattern's own label.
PatternLabelled ==
    /\ heuristic # NoString => heuristic = PatternOf.label
    /\ result # NoClassification => result.soundType = PatternOf.label

\* C21 amended: for the speech, music, vehicle and typing patterns and every
\* integer noise level of the pattern's range, both ends included, and for the
\* silence pattern at every noise level from 30 to 44, the classifier returns
\* the pattern's own label; for the silence pattern at noise 45, the upper end
\* of its range, it returns speech.
PatternLabelledBelowLimit ==
    LET expected == IF PatternOf.label = "silence" /\ features.noiseLevel = 45
                    THEN "speech" ELSE PatternOf.label
    IN  /\ heuristic # NoString => heuristic = expected
        /\ result # NoClassification =>
               result = [soundType |-> expected, confidence |-> 95]

\* C21 witness: the silence pattern at noise 45 has been classified as speech
PatternLabelledWitness ==
    /\ Classified
    /\ PatternOf.label = "silence" /\ features.noiseLevel = 45
    /\ heuristic = "speech" /\ result.soundType = "speech"

----------------------------------------------------------------------------
\* the state is the one the query handler left
QueryStep == last.op = "query"

\* C22: the reply to the pull query carries every entry of the registry as it
\* is at the query, each with the receipt time and the connection of its
\* device's latest accepted message, and the threshold 65; answering it changes
\* no registry entry and no connection's status or liveness flag, and sends no
\* device-data, alert or device-offline event.
QueryReturnsRegistry ==
    /\ [](QueryStep =>
            /\ Len(emitted) = 1
            /\ emitted[1].channel = "query-devices"
            /\ emitted[1].devices = devices
            /\ emitted[1].NOISE_THRESHOLD = 65
            /\ {e.id : e \in Entries} = DOMAIN heard
            /\ \A e \in Entries : e.lastSeen = heard[e.id])
    /\ [][last'.op = "query" =>
            /\ devices' = devices
            /\ clients' = clients
            /\ \A i \in DOMAIN emitted' :
                   emitted'[i].channel \notin {"device-data", "alert", "device-offline"}]_vars

\* C22 witness: a query has been answered with two entries, one of them stale,
\* while the connection has a probe outstanding
QueryReturnsRegistryWitness ==
    /\ QueryStep
    /\ Len(emitted[1].devices) = 2
    /\ \E e \in Entries : now - e.lastSeen > 15000
    /\ \E e \in Entries : now - e.lastSeen <= 15000
    /\ clients["c1"].status = "open" /\ clients["c1"].probe

----------------------------------------------------------------------------
\* the place of an emitted event in the pipeline of one message
Rank(e) ==
    IF e.channel = "device-data" THEN 1
    ELSE IF e.channel = "alert" /\ e.type = "noise_exceed" THEN 2
    ELSE IF e.channel = "alert" /\ e.type = "possible_sensor_issue" THEN 3
    ELSE 0

\* the events just emitted are those of the accepted message alone, in the
\* order device-data, noise_exceed, possible_sensor_issue, and the alerts
\* carry what the registry entry holds after the upsert
InPipelineOrder ==
    LET e == EntryOf(last.msg.deviceId)
    IN  /\ \A i \in DOMAIN emitted :
               /\ Rank(emitted[i]) > 0
               /\ emitted[i].deviceId = last.msg.deviceId
        /\ \A i, j \in DOMAIN emitted : i < j => Rank(emitted[i]) < Rank(emitted[j])
        /\ emitted # <<>> => Rank(emitted[1]) = 1
        /\ e.lastSeen = now /\ e.lastNoise = last.msg.noiseLevel /\ e.ws = last.conn
        /\ \A i \in DOMAIN emitted :
               Rank(emitted[i]) > 1 =>
                   /\ emitted[i].tableId = e.tableId
                   /\ emitted[i].noiseLevel = e.lastNoise

\* C23 as stated: for every accepted message exactly one device-data event is
\* emitted, and the events of the message are emitted in the order
\* device-data, noise_exceed, possible_sensor_issue, after the registry entry
\* has taken the message's values and with no event of another message or of
\* a sweep among them.
PipelineAlways ==
    AcceptedStep => (Cardinality(DataEvents) = 1 /\ InPipelineOrder)

\* C23 amended: while the display window is present, exactly one device-data
\* event is emitted for every accepted message, and the events of the message
\* are emitted in the order device-data, noise_exceed, possible_sensor_issue,
\* after the registry entry has taken the message's values and with no event
\* of another message or of a sweep among them; while the window is absent an
\* accepted message emits no event.
Pipeline ==
    AcceptedStep =>
        /\ Cardinality(DataEvents) = (IF mainWindow THEN 1 ELSE 0)
        /\ ~mainWindow => emitted = <<>>
        /\ InPipelineOrder

\* C23 witness: one message has emitted all three events
PipelineWitness ==
    /\ AcceptedStep
    /\ Len(emitted) = 3
    /\ Rank(emitted[1]) = 1 /\ Rank(emitted[2]) = 2 /\ Rank(emitted[3]) = 3

----------------------------------------------------------------------------
\* entry e holds the values of one message and nothing else: the receipt time
\* of its device's latest accepted message, and the connection, table and
\* noise that belong together in one reading
Whole(e) ==
    /\ e.id \in DOMAIN heard /\ e.lastSeen = heard[e.id]
    /\ \E c \in Conns : \E m \in SerialMessages(c) :
           m.deviceId = e.id /\ e.ws = c /\ e.tableId = m.tableId
                             /\ e.lastNoise = m.noiseLevel

\* C24: with two connections delivering readings of the same devices while the
\* timer runs, every registry entry, at every point where a handler or the
\* sweep can run, holds the values of one message only; the peers listed by a
\* possible_sensor_issue alert and the devices reported by the inactivity sweep
\* are read from such entries.
Serialized ==
    /\ \A e \in Entries : Whole(e)
    /\ AcceptedStep =>
           \A i \in Alerts("possible_sensor_issue") :
               \A k \in DOMAIN emitted[i].peers :
                   \E e \in Entries :
                       /\ Whole(e)
                       /\ e.id = emitted[i].peers[k].deviceId
                       /\ e.lastNoise = emitted[i].peers[k].noise
                       /\ e.tableId = emitted[i].tableId
    /\ SweepStep =>
           \A i \in OfflineNotices :
               \E e \in Entries :
                   /\ Whole(e)
                   /\ e.id = emitted[i].deviceId
                   /\ e.tableId = emitted[i].tableId
                   /\ now - e.lastSeen > 15000

\* C24 witness: the sweep has reported a device last heard on c2 at table T2
\* while the other device's entry was written by c1 at this clock reading
SerializedWitness ==
    /\ SweepStep
    /\ \E i \in OfflineNotices : emitted[i].tableId = "T2"
    /\ \E e \in Entries : e.ws = "c2" /\ e.lastNoise = 54 /\ now - e.lastSeen > 15000
    /\ \E e \in Entries : e.ws = "c1" /\ e.lastNoise = 80 /\ e.lastSeen = now

----------------------------------------------------------------------------
\* the events of the three event channels sent by the last step
EventsSent == {i \in DOMAIN emitted : emitted[i].channel \in EventChannels}

\* C25: while the display window is absent an accepted message writes the
\* registry exactly as the handler's upsert does with the window present, and
\* no device-data, alert or device-offline event is sent by any step; a window
\* that is gone stays gone, and whatever a step sends was produced by that very
\* step (a message's events carry that message's deviceId, a sweep's events
\* name entries stale at that sweep), so nothing undelivered is sent later.
BestEffortEmission ==
    /\ [](~mainWindow => EventsSent = {})
    /\ [](\A i \in EventsSent :
              \/ AcceptedStep /\ emitted[i].channel # "device-offline"
                              /\ emitted[i].deviceId = last.msg.deviceId
              \/ SweepStep /\ emitted[i].channel = "device-offline"
                           /\ \E e \in StaleEntries : e.id = emitted[i].deviceId)
    /\ [][ /\ (~mainWindow => ~mainWindow')
           /\ (AcceptingStep =>
                  devices' = Upsert(devices, last'.conn, last'.msg, now, initialized))
         ]_vars

\* C25 witness: with the window gone, a reading at or above the threshold has
\* been accepted; its entry holds the reading and the receipt time, and nothing
\* was sent
BestEffortEmissionWitness ==
    /\ ~mainWindow
    /\ AcceptedStep
    /\ Exceeds(last.msg.noiseLevel)
    /\ emitted = <<>>
    /\ \E e \in Entries : /\ e.id = last.msg.deviceId
                          /\ e.lastNoise = last.msg.noiseLevel
                          /\ e.lastSeen = now /\ now > ClockStart

----------------------------------------------------------------------------
\* positions in `emitted` of the alerts of either type
AlertEvents == {i \in DOMAIN emitted : emitted[i].channel = "alert"}

\* C26: the events emitted for one accepted message agree on the device's
\* table: the device-data event carries the tableId the registry holds for the
\* device after the upsert, which is also the tableId of every alert emitted
\* for the message, whether or not the message carries a tableId.
EventsAgreeOnTable ==
    AcceptedStep =>
        \A i \in DataEvents :
            /\ emitted[i].tableId = EntryOf(last.msg.deviceId).tableId
            /\ \A j \in AlertEvents : emitted[j].tableId = emitted[i].tableId

----------------------------------------------------------------------------
\* C27: a possible_sensor_issue alert emitted for an accepted message of device
\* D comes right after a noise_exceed alert for D emitted for the same message,
\* with the same noise level and the same tableId.
IssueNeverAlone ==
    AcceptedStep =>
        \A i \in Alerts("possible_sensor_issue") :
            /\ emitted[i].deviceId = last.msg.deviceId
            /\ i - 1 \in Alerts("noise_exceed")
            /\ emitted[i - 1].deviceId = emitted[i].deviceId
            /\ emitted[i - 1].noiseLevel = emitted[i].noiseLevel
            /\ emitted[i - 1].tableId = emitted[i].tableId

\* C27 witness: a reading without a tableId, from a device the registry has on
\* T1 next to a quiet peer, has raised both alerts
IssueNeverAloneWitness ==
    /\ AcceptedStep
    /\ last.msg.tableId = NoString
    /\ \E i \in Alerts("possible_sensor_issue") :
           emitted[i].tableId = "T1" /\ Len(emitted[i].peers) > 0

----------------------------------------------------------------------------
\* C28: the lastSeen of a registry entry never decreases, whatever timestamp
\* fields the accepted messages for its deviceId carry.
LastSeenMonotonic ==
    [][\A id \in Ids(devices) :
           /\ Has(devices', id)
           /\ Get(devices', id).lastSeen >= Get(devices, id).lastSeen]_vars

\* C28 witness: the device registered first has been heard again, after the
\* second one, with a timestamp field older than every receipt time; its
\* lastSeen is the current clock reading
LastSeenMonotonicWitness ==
    /\ AcceptedStep
    /\ Len(devices) = 2
    /\ devices[1].id = last.msg.deviceId
    /\ last.msg.timestamp = 1
    /\ devices[1].lastSeen = now
    /\ devices[2].lastSeen < now
    /\ last.msg.timestamp < devices[2].lastSeen

----------------------------------------------------------------------------
\* C29: over every ordering of the output chunks, the readiness poll and the
\* fallback timeout, spawnSimulator is called at most once, and every call is
\* given a port value that was known at the time.
SimulatorStartedOnce ==
    /\ Len(simulators) <= 1
    /\ \A i \in DOMAIN simulators : TruthyNum(simulators[i])

----------------------------------------------------------------------------
\* C30: however many logins and logouts came before, the display client has
\* one listener on each event channel and one periodic offline check, so an
\* event received while logged in is handled exactly once and one alert or
\* device-offline event adds one entry to the alert list.
HandledExactlyOnce ==
    /\ listeners <= 1
    /\ offlineChecks <= 1
    /\ (view.op = "event" /\ isLoggedIn) =>
           /\ view.handled = 1
           /\ (view.channel # "device-data" => view.added = 1)

====
